---- MODULE Spec2Model ----
(***************************************************************************)
(* Model of src/app.py: the Streamlit dashboard that loads three CSV       *)
(* files, normalises country names, aggregates, joins and plots.           *)
(*                                                                         *)
(* Text is modelled as a sequence of one-character strings, so that the    *)
(* substring replacements of clean() are computed character by character.  *)
(* A number is a reduced fraction <<num, den>>; a missing cell is NaN.      *)
(***************************************************************************)
EXTENDS Integers, Sequences, FiniteSets, TLC

VARIABLES
    files,        \* contents of the three CSV files on disk
    cache,        \* st.cache_data store of load_data(): <<>> or <<result>>
    page,         \* the script's variables after the last page run
    country_col,  \* a column of raw country strings (input of .apply(clean))
    c_col,        \* the column after .apply(clean)
    cc_col,       \* the column after a second .apply(clean)
    years,        \* one GDP row: its six year cells
    GDP_mean,     \* the row's mean over the year cells
    phase         \* position of the pure-function runs

vars == <<files, cache, page, country_col, c_col, cc_col, years, GDP_mean, phase>>

(***************************************************************************)
(* Text primitives (Python str methods used by clean)                      *)
(***************************************************************************)
UpperCase == <<"A", "B", "C", "D", "E", "F", "G", "H", "I", "J", "K", "L", "M", "N", "O", "P", "Q", "R", "S", "T", "U", "V", "W", "X", "Y", "Z">>
LowerCase == <<"a", "b", "c", "d", "e", "f", "g", "h", "i", "j", "k", "l", "m", "n", "o", "p", "q", "r", "s", "t", "u", "v", "w", "x", "y", "z">>

\* The whitespace characters str.strip() removes (those the inputs can hold).
Whitespace == {" ", "\t"}

\* pandas reads an empty cell as NaN: a value that is no text and no number.
NaN == <<"NaN">>

\* str(x): the text of a cell; NaN prints as "nan".
str(x) == IF x = NaN THEN <<"n", "a", "n">> ELSE x

RECURSIVE lstrip(_)
lstrip(s) ==
    IF s # <<>> /\ Head(s) \in Whitespace THEN lstrip(Tail(s)) ELSE s

RECURSIVE rstrip(_)
rstrip(s) ==
    IF s # <<>> /\ s[Len(s)] \in Whitespace
    THEN rstrip(SubSeq(s, 1, Len(s) - 1)) ELSE s

\* str.strip(): leading and trailing whitespace removed.
strip(s) == rstrip(lstrip(s))

\* The lower-case letter of each upper-case letter, and the reverse.
lowerOf == [ch \in {UpperCase[k] : k \in 1..Len(UpperCase)} |->
               LowerCase[CHOOSE k \in 1..Len(UpperCase) : UpperCase[k] = ch]]
upperOf == [ch \in {LowerCase[k] : k \in 1..Len(LowerCase)} |->
               UpperCase[CHOOSE k \in 1..Len(LowerCase) : LowerCase[k] = ch]]

lowerChar(ch) == IF ch \in DOMAIN lowerOf THEN lowerOf[ch] ELSE ch
upperChar(ch) == IF ch \in DOMAIN upperOf THEN upperOf[ch] ELSE ch

\* A lower() that leaves the case as it is (a mutation of lower).
keepCase(s) == s

\* str.lower()
lower(s) == [i \in 1..Len(s) |-> lowerChar(s[i])]

\* str.replace(old, new): every non-overlapping occurrence, left to right.
RECURSIVE replace(_, _, _)
replace(s, old, new) ==
    IF Len(s) < Len(old) THEN s
    ELSE IF SubSeq(s, 1, Len(old)) = old
         THEN new \o replace(SubSeq(s, Len(old) + 1, Len(s)), old, new)
         ELSE <<Head(s)>> \o replace(Tail(s), old, new)

\* clean without the final removal of spaces (a mutation of clean).
cleanKeepSpaces(x) ==
    LET s0 == lower(strip(str(x)))
        s1 == replace(s0, <<"r", "e", "p", "u", "b", "l", "i", "c", " ", "o", "f", " ">>, <<>>)
        s2 == replace(s1, <<"o", "f", " ", "a", "m", "e", "r", "i", "c", "a">>, <<>>)
        s3 == replace(s2, <<"k", "o", "r", "e", "a", ",", " ", "r", "e", "p", "u", "b", "l", "i", "c", " ", "o", "f">>, <<"s", "o", "u", "t", "h", " ", "k", "o", "r", "e", "a">>)
        s4 == replace(s3, <<"c", "z", "e", "c", "h", "i", "a">>, <<"c", "z", "e", "c", "h", " ", "r", "e", "p", "u", "b", "l", "i", "c">>)
        s5 == replace(s4, <<"v", "i", "e", "t", " ", "n", "a", "m">>, <<"v", "i", "e", "t", "n", "a", "m">>)
        s6 == replace(s5, <<"p", "e", "o", "p", "l", "e", "'", "s", " ", "r", "e", "p", "u", "b", "l", "i", "c", " ", "o", "f", " ", "c", "h", "i", "n", "a">>, <<"c", "h", "i", "n", "a">>)
        s7 == replace(s6, <<"u", "n", "i", "t", "e", "d", " ", "s", "t", "a", "t", "e", "s", " ", "o", "f", " ", "a", "m", "e", "r", "i", "c", "a">>, <<"u", "n", "i", "t", "e", "d", " ", "s", "t", "a", "t", "e", "s">>)
        s8 == replace(s7, <<"u", ".", "s", ".">>, <<"u", "n", "i", "t", "e", "d", " ", "s", "t", "a", "t", "e", "s">>)
        s9 == replace(s8, <<"u", "k">>, <<"u", "n", "i", "t", "e", "d", " ", "k", "i", "n", "g", "d", "o", "m">>)
    IN  s9

\* load_data.clean: the normaliser of a raw country cell.
clean(x) ==
    LET s0 == lower(strip(str(x)))
        s1 == replace(s0, <<"r", "e", "p", "u", "b", "l", "i", "c", " ", "o", "f", " ">>, <<>>)
        s2 == replace(s1, <<"o", "f", " ", "a", "m", "e", "r", "i", "c", "a">>, <<>>)
        s3 == replace(s2, <<"k", "o", "r", "e", "a", ",", " ", "r", "e", "p", "u", "b", "l", "i", "c", " ", "o", "f">>, <<"s", "o", "u", "t", "h", " ", "k", "o", "r", "e", "a">>)
        s4 == replace(s3, <<"c", "z", "e", "c", "h", "i", "a">>, <<"c", "z", "e", "c", "h", " ", "r", "e", "p", "u", "b", "l", "i", "c">>)
        s5 == replace(s4, <<"v", "i", "e", "t", " ", "n", "a", "m">>, <<"v", "i", "e", "t", "n", "a", "m">>)
        s6 == replace(s5, <<"p", "e", "o", "p", "l", "e", "'", "s", " ", "r", "e", "p", "u", "b", "l", "i", "c", " ", "o", "f", " ", "c", "h", "i", "n", "a">>, <<"c", "h", "i", "n", "a">>)
        s7 == replace(s6, <<"u", "n", "i", "t", "e", "d", " ", "s", "t", "a", "t", "e", "s", " ", "o", "f", " ", "a", "m", "e", "r", "i", "c", "a">>, <<"u", "n", "i", "t", "e", "d", " ", "s", "t", "a", "t", "e", "s">>)
        s8 == replace(s7, <<"u", ".", "s", ".">>, <<"u", "n", "i", "t", "e", "d", " ", "s", "t", "a", "t", "e", "s">>)
        s9 == replace(s8, <<"u", "k">>, <<"u", "n", "i", "t", "e", "d", " ", "k", "i", "n", "g", "d", "o", "m">>)
    IN  replace(s9, <<" ">>, <<>>)

\* Series.apply(clean): clean applied to every cell of a column.
apply_clean(col) == [i \in 1..Len(col) |-> clean(col[i])]

(***************************************************************************)
(* Numbers: exact fractions, so that a mean is the mean and not a rounding *)
(***************************************************************************)
RECURSIVE gcd(_, _)
gcd(a, b) == IF b = 0 THEN a ELSE gcd(b, a % b)

\* The fraction n/d (d > 0, n >= 0) in lowest terms.
frac(n, d) == LET g == gcd(n, d) IN <<n \div g, d \div g>>

num(v) == frac(v, 1)

RECURSIVE sum(_)
sum(vals) ==
    IF vals = <<>> THEN <<0, 1>>
    ELSE LET h == Head(vals)
             t == sum(Tail(vals))
         IN  frac(h[1] * t[2] + t[1] * h[2], h[2] * t[2])

\* The cells of vals that are not NaN, in order.
notna(vals) == SelectSeq(vals, LAMBDA v : v # NaN)

\* A mean that counts NaN cells as zero (a mutation of mean).
meanNaNAsZero(vals) ==
    LET total == sum(notna(vals))
    IN  IF vals = <<>> THEN NaN
        ELSE frac(total[1], total[2] * Len(vals))

\* Series.mean() / DataFrame.mean(axis=1): skipna=True is the pandas default,
\* so NaN cells are left out of both the sum and the count; no cell left: NaN.
mean(vals) ==
    LET present == notna(vals)
        total   == sum(present)
    IN  IF present = <<>> THEN NaN
        ELSE frac(total[1], total[2] * Len(present))

(***************************************************************************)
(* Tables: a DataFrame is a sequence of rows, a row a record of cells      *)
(***************************************************************************)
\* Code-point order of the characters that occur, for sorted().
CodePoints == <<"\t", " ", "'", ",", ".", "A", "B", "C", "D", "E", "F", "G", "H", "I", "J", "K", "L", "M", "N", "O", "P", "Q", "R", "S", "T", "U", "V", "W", "X", "Y", "Z", "a", "b", "c", "d", "e", "f", "g", "h", "i", "j", "k", "l", "m", "n", "o", "p", "q", "r", "s", "t", "u", "v", "w", "x", "y", "z">>

ordOf == [ch \in {CodePoints[k] : k \in 1..Len(CodePoints)} |->
             CHOOSE k \in 1..Len(CodePoints) : CodePoints[k] = ch]
ord(ch) == ordOf[ch]

\* Python's order on str: the first differing character decides, a prefix is less.
RECURSIVE strLess(_, _)
strLess(a, b) ==
    IF b = <<>> THEN FALSE
    ELSE IF a = <<>> THEN TRUE
    ELSE IF Head(a) = Head(b) THEN strLess(Tail(a), Tail(b))
    ELSE ord(Head(a)) < ord(Head(b))

\* sorted(set(...)): the elements of S in ascending order.
RECURSIVE sorted(_)
sorted(S) ==
    IF S = {} THEN <<>>
    ELSE LET m == CHOOSE x \in S : \A y \in S \ {x} : strLess(x, y)
         IN  <<m>> \o sorted(S \ {m})

Range(s) == {s[i] : i \in 1..Len(s)}

\* df[col]: one column of a table.
column(df, col) == [i \in 1..Len(df) |-> df[i][col]]

\* df[[cols]]: the table restricted to some columns.
project(df, cols) == [i \in 1..Len(df) |-> [k \in cols |-> df[i][k]]]

\* Concatenation of a sequence of tables.
RECURSIVE concat(_)
concat(parts) == IF parts = <<>> THEN <<>> ELSE Head(parts) \o concat(Tail(parts))

\* pd.merge(df1, df2, on="c", how=how), cols being the columns of df2 other
\* than the key: every pairing of a left row with a right row of the same
\* key, in left order; with how="left" a left row without a partner is kept
\* once, its right columns NaN; with how="inner" it is dropped.
merge(df1, df2, cols, how) ==
    LET rowsFor(l) ==
            LET m == SelectSeq(df2, LAMBDA r : r.c = l.c)
            IN  IF m = <<>>
                THEN IF how = "left" THEN <<l @@ [k \in cols |-> NaN]>> ELSE <<>>
                ELSE [j \in 1..Len(m) |-> l @@ m[j]]
    IN  concat([i \in 1..Len(df1) |-> rowsFor(df1[i])])

\* DataFrame.dropna(subset=cols): the rows with no NaN in the named columns.
dropna(df, cols) == SelectSeq(df, LAMBDA r : \A k \in cols : r[k] # NaN)

isLetter(ch) == ch \in DOMAIN lowerOf \/ ch \in DOMAIN upperOf

\* str.title(): a letter that follows no letter is upper-cased, the others lowered.
title(s) ==
    [i \in 1..Len(s) |->
        IF i = 1 \/ ~isLetter(s[i - 1]) THEN upperChar(s[i]) ELSE lowerChar(s[i])]

(***************************************************************************)
(* load_data: read, normalise, aggregate                                   *)
(***************************************************************************)
\* The year columns of the GDP file; a GDP row holds one cell per column.
YearColumns == <<"2020", "2021", "2022", "2023", "2024", "2025">>

\* Series.astype(float): a number stays that number, NaN stays NaN.
astype_float(v) == IF v = NaN THEN NaN ELSE frac(v[1], v[2])

\* A groupby that keeps each key's first value instead of the mean
\* (a mutation of groupby_mean).
groupby_first(df) ==
    LET ks == sorted(Range(column(df, "c")))
    IN  [i \in 1..Len(ks) |->
            [c |-> ks[i],
             GBARD_USD_Million |->
                 SelectSeq(df, LAMBDA r : r.c = ks[i])[1].GBARD_USD_Million]]

\* rnd.groupby("c", as_index=False)["GBARD_USD_Million"].mean(): one row per
\* key, keys in ascending order, the value the mean over the key's rows.
groupby_mean(df) ==
    LET ks == sorted(Range(column(df, "c")))
    IN  [i \in 1..Len(ks) |->
            [c |-> ks[i],
             GBARD_USD_Million |->
                 mean(column(SelectSeq(df, LAMBDA r : r.c = ks[i]),
                             "GBARD_USD_Million"))]]

\* The body of load_data on file contents f: (rnd_mean, gdp, eco).
load_data(f) ==
    LET rnd == [i \in 1..Len(f.rnd) |->
                   f.rnd[i] @@ [c |-> clean(f.rnd[i].Country)]]
        gdp == [i \in 1..Len(f.gdp) |->
                   f.gdp[i] @@ [c |-> clean(f.gdp[i].Country),
                                GDP_mean |-> mean(f.gdp[i].years)]]
        eco == [i \in 1..Len(f.eco) |->
                   [Country |-> f.eco[i].Country,
                    c |-> clean(f.eco[i].Country),
                    Interest_Rate |-> astype_float(f.eco[i].Interest_Rate),
                    Stock_Index_Value |-> astype_float(f.eco[i].Stock_Index_Value),
                    Inflation_Rate |-> astype_float(f.eco[i].Inflation_Rate)]]
    IN  [rnd |-> groupby_mean(rnd), gdp |-> gdp, eco |-> eco]

(***************************************************************************)
(* The page script                                                         *)
(***************************************************************************)
IndicatorColumns == {"Interest_Rate", "Stock_Index_Value", "Inflation_Rate"}

\* Lines 125-127: the overview table.
overview(rnd, gdp, eco) ==
    LET m1 == merge(rnd, project(gdp, {"c", "GDP_mean"}), {"GDP_mean"}, "left")
        m2 == merge(m1, project(eco, {"c"} \cup IndicatorColumns),
                    IndicatorColumns, "left")
    IN  [i \in 1..Len(m2) |-> m2[i] @@ [Country |-> title(m2[i].c)]]

\* merge_pair without the dropna (a mutation of merge_pair).
merge_pairKeepNaN(df1, df2, key) ==
    LET merged == merge(df1, df2, {key}, "inner")
    IN  [i \in 1..Len(merged) |-> merged[i] @@ [Country |-> title(merged[i].c)]]

merge_pair(df1, df2, key) ==
    LET merged  == merge(df1, df2, {key}, "inner")
        dropped == dropna(merged, {"GBARD_USD_Million", key})
    IN  [i \in 1..Len(dropped) |-> dropped[i] @@ [Country |-> title(dropped[i].c)]]

\* A filter applied whatever the selection, the empty one included
\* (a mutation of select).
selectAlways(df, countries) == SelectSeq(df, LAMBDA r : r.c \in countries)

\* Lines 332-336: `if countries: df = df[df["c"].isin(countries)]`.
select(df, countries) ==
    IF countries # {} THEN SelectSeq(df, LAMBDA r : r.c \in countries) ELSE df

\* The options of the country multiselect (line 317).
options(d) ==
    sorted(Range(column(d.rnd, "c")) \cup Range(column(d.gdp, "c"))
           \cup Range(column(d.eco, "c")))

\* px.scatter(df, ..., trendline="ols"): the chart request handed to plotly.
scatter(df, y) == [rows |-> Len(df), y |-> y, trendline |-> "ols"]

\* Lines 125-127 and 327-330: the overview table and the four per-indicator
\* tables, joined from the loaded tables d = (rnd, gdp, eco).
joined(d) ==
    [merged |-> overview(d.rnd, d.gdp, d.eco),
     gdp_df |-> merge_pair(d.rnd, project(d.gdp, {"c", "GDP_mean"}), "GDP_mean"),
     int_df |-> merge_pair(d.rnd, project(d.eco, {"c", "Interest_Rate"}),
                           "Interest_Rate"),
     inf_df |-> merge_pair(d.rnd, project(d.eco, {"c", "Inflation_Rate"}),
                           "Inflation_Rate"),
     stk_df |-> merge_pair(d.rnd, project(d.eco, {"c", "Stock_Index_Value"}),
                           "Stock_Index_Value")]

\* The script's variables at the end of a run: the joined tables j, filtered
\* by the multiselect's `countries` (lines 332-336), then charted (338-352)
\* and followed by the conclusion box (355).
render(j, countries) ==
    LET gdp_df == select(j.gdp_df, countries)
        int_df == select(j.int_df, countries)
        inf_df == select(j.inf_df, countries)
        stk_df == select(j.stk_df, countries)
    IN  [ran |-> TRUE,
         merged |-> j.merged,
         countries |-> countries,
         gdp_df |-> gdp_df, int_df |-> int_df, inf_df |-> inf_df, stk_df |-> stk_df,
         fig1 |-> scatter(gdp_df, "GDP_mean"),
         fig2 |-> scatter(stk_df, "Stock_Index_Value"),
         fig3 |-> scatter(int_df, "Interest_Rate"),
         fig4 |-> scatter(inf_df, "Inflation_Rate"),
         notices |-> {"Conclusion"}]

\* No page rendered yet.
NoPage ==
    [ran |-> FALSE, merged |-> <<>>,
     countries |-> {}, gdp_df |-> <<>>, int_df |-> <<>>, inf_df |-> <<>>,
     stk_df |-> <<>>,
     fig1 |-> [rows |-> 0, y |-> "", trendline |-> ""],
     fig2 |-> [rows |-> 0, y |-> "", trendline |-> ""],
     fig3 |-> [rows |-> 0, y |-> "", trendline |-> ""],
     fig4 |-> [rows |-> 0, y |-> "", trendline |-> ""],
     notices |-> {}]

(***************************************************************************)
(* Inputs                                                                  *)
(***************************************************************************)
MaxRows == 2   \* rows per input file
MaxCol == 2    \* cells of the column handed to .apply(clean)

SeqsUpTo(S, n) == UNION {[1..k -> S] : k \in 0..n}

RepublicOfKorea == <<"R", "e", "p", "u", "b", "l", "i", "c", " ", "o", "f", " ", "K", "o", "r", "e", "a">>
SouthKorea == <<"S", "o", "u", "t", "h", " ", "K", "o", "r", "e", "a">>
KoreaRepublicOf == <<"K", "o", "r", "e", "a", ",", " ", "R", "e", "p", "u", "b", "l", "i", "c", " ", "o", "f">>

\* The spec's example row of the GDP file.
ExampleYears == <<num(100), NaN, num(120), num(110), NaN, num(130)>>
NoYears == [i \in 1..Len(YearColumns) |-> NaN]

\* Sample rows of data/RnD_Data_filled.csv.
RndRows ==
    { [Country |-> RepublicOfKorea, GBARD_USD_Million |-> num(10)],
      [Country |-> SouthKorea,      GBARD_USD_Million |-> num(20)],
      [Country |-> KoreaRepublicOf, GBARD_USD_Million |-> num(45)],
      [Country |-> SouthKorea,      GBARD_USD_Million |-> NaN] }

\* Sample rows of data/GDP_Data_filled.csv.
GdpRows ==
    { [Country |-> SouthKorea,      years |-> ExampleYears],
      [Country |-> KoreaRepublicOf, years |-> NoYears] }

\* Sample rows of data/Country-Year_Economic_Indicators_filled.csv.
EcoRows ==
    { [Country |-> SouthKorea, Interest_Rate |-> num(3),
       Stock_Index_Value |-> num(2500), Inflation_Rate |-> num(2)],
      [Country |-> RepublicOfKorea, Interest_Rate |-> NaN,
       Stock_Index_Value |-> num(2600), Inflation_Rate |-> NaN] }

\* The contents an edit of an input file writes: one-row files.
EditedRnd == {<<r>> : r \in RndRows}
EditedGdp == {<<r>> : r \in GdpRows}
EditedEco == {<<r>> : r \in EcoRows}

\* The rules of clean that fold a long form into a short form (lines 19-25).
AliasRules ==
    << <<<<"k", "o", "r", "e", "a", ",", " ", "r", "e", "p", "u", "b", "l", "i", "c", " ", "o", "f">>, <<"s", "o", "u", "t", "h", " ", "k", "o", "r", "e", "a">>>>,
       <<<<"c", "z", "e", "c", "h", "i", "a">>, <<"c", "z", "e", "c", "h", " ", "r", "e", "p", "u", "b", "l", "i", "c">>>>,
       <<<<"v", "i", "e", "t", " ", "n", "a", "m">>, <<"v", "i", "e", "t", "n", "a", "m">>>>,
       <<<<"p", "e", "o", "p", "l", "e", "'", "s", " ", "r", "e", "p", "u", "b", "l", "i", "c", " ", "o", "f", " ", "c", "h", "i", "n", "a">>, <<"c", "h", "i", "n", "a">>>>,
       <<<<"u", "n", "i", "t", "e", "d", " ", "s", "t", "a", "t", "e", "s", " ", "o", "f", " ", "a", "m", "e", "r", "i", "c", "a">>, <<"u", "n", "i", "t", "e", "d", " ", "s", "t", "a", "t", "e", "s">>>>,
       <<<<"u", ".", "s", ".">>, <<"u", "n", "i", "t", "e", "d", " ", "s", "t", "a", "t", "e", "s">>>>,
       <<<<"u", "k">>, <<"u", "n", "i", "t", "e", "d", " ", "k", "i", "n", "g", "d", "o", "m">>>> >>

\* Every long form and short form the rules name, with the two patterns of
\* lines 17-18.
AliasTable ==
    {AliasRules[i][1] : i \in 1..Len(AliasRules)}
    \cup {AliasRules[i][2] : i \in 1..Len(AliasRules)}
    \cup {<<"r", "e", "p", "u", "b", "l", "i", "c", " ", "o", "f", " ">>, <<"o", "f", " ", "a", "m", "e", "r", "i", "c", "a">>}

\* The same names as a file spells them.
RawSpellings ==
    {RepublicOfKorea, SouthKorea, KoreaRepublicOf, <<"P", "e", "o", "p", "l", "e", "'", "s", " ", "R", "e", "p", "u", "b", "l", "i", "c", " ", "o", "f", " ", "C", "h", "i", "n", "a">>,
     <<"U", "n", "i", "t", "e", "d", " ", "S", "t", "a", "t", "e", "s", " ", "o", "f", " ", "A", "m", "e", "r", "i", "c", "a">>, <<" ", "U", "K", " ">>}

\* Country names no rule of clean is written for.
UnmappedNames ==
    {<<"U", "k", "r", "a", "i", "n", "e">>,
     <<"J", "a", "p", "a", "n">>,
     <<"C", "o", "t", "e", " ", "d", "'", "I", "v", "o", "i", "r", "e">>,
     <<" ", "N", "e", "w", "\t", "Z", "e", "a", "l", "a", "n", "d", " ">>}

CleanInputs == AliasTable \cup RawSpellings \cup UnmappedNames \cup {NaN}

\* The values a year cell takes.
YearCells == {NaN, num(100), num(110), num(120), num(130)}

(***************************************************************************)
(* The page: one server process, load_data memoised by st.cache_data       *)
(***************************************************************************)
PureIdle ==
    /\ country_col = <<>> /\ c_col = <<>> /\ cc_col = <<>>
    /\ years = NoYears /\ GDP_mean = NaN

PageIdle ==
    /\ files = [rnd |-> <<>>, gdp |-> <<>>, eco |-> <<>>]
    /\ cache = <<>>
    /\ page = NoPage

Init ==
    /\ files \in [rnd : SeqsUpTo(RndRows, MaxRows),
                  gdp : SeqsUpTo(GdpRows, MaxRows),
                  eco : SeqsUpTo(EcoRows, MaxRows)]
    /\ cache = <<>>
    /\ page = NoPage
    /\ phase = "page"
    /\ PureIdle

\* @st.cache_data on a function without arguments: the first call runs the
\* body and stores the result, every later call returns the stored result.
cached_load_data == IF cache = <<>> THEN load_data(files) ELSE cache[1]

\* One run of the script, the multiselect holding `countries`.
Run ==
    /\ phase = "page"
    /\ LET d == cached_load_data
           j == joined(d)
       IN  /\ cache' = <<d>>
           /\ \E countries \in SUBSET Range(options(d)) :
                  page' = render(j, countries)
    /\ UNCHANGED <<files, country_col, c_col, cc_col, years, GDP_mean, phase>>

Next == Run

Spec == Init /\ [][Next]_vars

(***************************************************************************)
(* The page while the input files are edited                               *)
(***************************************************************************)
InitCache ==
    /\ files \in [rnd : EditedRnd, gdp : EditedGdp, eco : EditedEco]
    /\ cache = <<>>
    /\ page = NoPage
    /\ phase = "page"
    /\ PureIdle

EditRnd ==
    /\ phase = "page"
    /\ \E t \in EditedRnd \ {files.rnd} : files' = [files EXCEPT !.rnd = t]
    /\ UNCHANGED <<cache, page, country_col, c_col, cc_col, years, GDP_mean, phase>>

EditGdp ==
    /\ phase = "page"
    /\ \E t \in EditedGdp \ {files.gdp} : files' = [files EXCEPT !.gdp = t]
    /\ UNCHANGED <<cache, page, country_col, c_col, cc_col, years, GDP_mean, phase>>

EditEco ==
    /\ phase = "page"
    /\ \E t \in EditedEco \ {files.eco} : files' = [files EXCEPT !.eco = t]
    /\ UNCHANGED <<cache, page, country_col, c_col, cc_col, years, GDP_mean, phase>>

NextCache == Run \/ EditRnd \/ EditGdp \/ EditEco

SpecCache == InitCache /\ [][NextCache]_vars

(***************************************************************************)
(* clean as a pure function: a column of raw strings, cleaned, cleaned again*)
(***************************************************************************)
InitClean ==
    /\ country_col \in SeqsUpTo(CleanInputs, MaxCol)
    /\ c_col = <<>> /\ cc_col = <<>>
    /\ years = NoYears /\ GDP_mean = NaN
    /\ phase = "raw"
    /\ PageIdle

\* rnd["c"] = rnd["Country"].apply(clean)
ApplyClean ==
    /\ phase = "raw"
    /\ c_col' = apply_clean(country_col)
    /\ phase' = "cleaned"
    /\ UNCHANGED <<files, cache, page, country_col, cc_col, years, GDP_mean>>

\* clean applied to the keys it produced.
ReapplyClean ==
    /\ phase = "cleaned"
    /\ cc_col' = apply_clean(c_col)
    /\ phase' = "recleaned"
    /\ UNCHANGED <<files, cache, page, country_col, c_col, years, GDP_mean>>

NextClean == ApplyClean \/ ReapplyClean

SpecClean == InitClean /\ [][NextClean]_vars

(***************************************************************************)
(* The GDP row mean as a pure function                                     *)
(***************************************************************************)
InitGdp ==
    /\ years \in [1..Len(YearColumns) -> YearCells]
    /\ GDP_mean = NaN
    /\ country_col = <<>> /\ c_col = <<>> /\ cc_col = <<>>
    /\ phase = "row"
    /\ PageIdle

\* gdp["GDP_mean"] = gdp[[...six year columns...]].mean(axis=1), for one row.
RowMean ==
    /\ phase = "row"
    /\ GDP_mean' = mean(years)
    /\ phase' = "averaged"
    /\ UNCHANGED <<files, cache, page, country_col, c_col, cc_col, years>>

NextGdp == RowMean

SpecGdp == InitGdp /\ [][NextGdp]_vars

(***************************************************************************)
(* Properties                                                              *)
(***************************************************************************)
\* The tables the last run worked on: what load_data() returned to it.
loaded == cache[1]

\* Sum of the numerators of the cells of column col in the rows idx of df
\* (the sample cells are whole numbers).
RECURSIVE wholeSum(_, _, _)
wholeSum(df, col, idx) ==
    IF idx = {} THEN 0
    ELSE LET i == CHOOSE x \in idx : TRUE
         IN  df[i][col][1] + wholeSum(df, col, idx \ {i})

\* v is the arithmetic mean of the non-missing cells of column col in the
\* rows idx of df (NaN when there is none).
IsMeanOf(v, df, col, idx) ==
    LET present == {i \in idx : df[i][col] # NaN}
    IN  IF present = {} THEN v = NaN
        ELSE /\ v # NaN
             /\ \A i \in present : df[i][col][2] = 1
             /\ v[1] * Cardinality(present) = v[2] * wholeSum(df, col, present)

\* C1: "Republic of Korea" and "South Korea" normalise to the same key, so
\* that whenever the investment file holds rows of both spellings, the
\* aggregated table has one row that carries the key of all those rows and
\* whose value is the mean of all the rows of that key.
C1_KoreaSpellingsShareOneRow ==
    page.ran =>
        LET raw == files.rnd
            both == {i \in DOMAIN raw :
                        raw[i].Country \in {RepublicOfKorea, SouthKorea}}
        IN  (/\ \E i \in both : raw[i].Country = RepublicOfKorea
             /\ \E i \in both : raw[i].Country = SouthKorea)
            => \E k \in DOMAIN loaded.rnd :
                  /\ \A i \in both : clean(raw[i].Country) = loaded.rnd[k].c
                  /\ IsMeanOf(loaded.rnd[k].GBARD_USD_Million, raw,
                              "GBARD_USD_Million",
                              {i \in DOMAIN raw :
                                  clean(raw[i].Country) = loaded.rnd[k].c})

\* C2: the left-joined overview table has exactly as many rows as the
\* aggregated investment table, whatever the GDP and indicator tables hold.
C2_OverviewRowCount ==
    page.ran => Len(page.merged) = Len(loaded.rnd)

\* The four charts of a page with the table each one plots.
Charts(p) ==
    { <<p.gdp_df, p.fig1>>, <<p.stk_df, p.fig2>>,
      <<p.int_df, p.fig3>>, <<p.inf_df, p.fig4>> }

\* C3: an indicator whose joined and filtered table has fewer than 2 rows is
\* reported as "insufficient data" and no trend line is requested for it.
C3_FewRowsReportInsufficientData ==
    page.ran =>
        \A ch \in Charts(page) :
            Len(ch[1]) < 2 =>
                /\ "insufficient data" \in page.notices
                /\ ch[2].trendline # "ols"

\* C4: the aggregated investment table has at most one row per key, a row
\* for every key that occurs in the raw table, and each row's value is the
\* arithmetic mean of the investment values of the raw rows of its key
\* (a missing investment cell is no value: pandas leaves it out of the mean).
C4_AggregatedMean ==
    page.ran =>
        LET raw == files.rnd
            agg == loaded.rnd
        IN  /\ \A i, k \in DOMAIN agg : agg[i].c = agg[k].c => i = k
            /\ \A i \in DOMAIN raw :
                  \E k \in DOMAIN agg : agg[k].c = clean(raw[i].Country)
            /\ \A k \in DOMAIN agg :
                  LET idx == {i \in DOMAIN raw : clean(raw[i].Country) = agg[k].c}
                  IN  /\ idx # {}
                      /\ IsMeanOf(agg[k].GBARD_USD_Million, raw,
                                  "GBARD_USD_Million", idx)

\* C4 witness: two raw rows with different spellings and different values
\* share one key, and the aggregated table is the single row of their mean.
C4_Witness ==
    /\ page.ran
    /\ Len(files.rnd) = 2
    /\ files.rnd[1].Country = SouthKorea
    /\ files.rnd[2].Country = KoreaRepublicOf
    /\ loaded.rnd = <<[c |-> <<"s", "o", "u", "t", "h", "k", "o", "r", "e", "a">>, GBARD_USD_Million |-> <<65, 2>>]>>

\* C5: every run works on the tables derived from the current content of the
\* three input files.
C5_RunUsesCurrentFiles ==
    [][Run => cache'[1] = load_data(files)]_vars

KnownAliases == AliasTable \cup RawSpellings

\* C6: for every string of the known alias table, cleaning the key again
\* returns the key: clean(clean(s)) = clean(s).
C6_CleanIdempotent ==
    phase = "recleaned" =>
        \A i \in DOMAIN country_col :
            country_col[i] \in KnownAliases => cc_col[i] = c_col[i]

\* C6 witness: a long form was cleaned to a different string, and cleaning
\* that key again left it unchanged.
C6_Witness ==
    /\ phase = "recleaned"
    /\ \E i \in DOMAIN country_col :
          /\ country_col[i] = <<"u", "n", "i", "t", "e", "d", " ", "s", "t", "a", "t", "e", "s", " ", "o", "f", " ", "a", "m", "e", "r", "i", "c", "a">>
          /\ c_col[i] = <<"u", "n", "i", "t", "e", "d", "s", "t", "a", "t", "e", "s">>
          /\ cc_col[i] = <<"u", "n", "i", "t", "e", "d", "s", "t", "a", "t", "e", "s">>

\* C7: for every alias rule, the long form and the short form given as raw
\* country strings get the same key.
C7_LongAndShortFormShareKey ==
    phase = "cleaned" =>
        \A r \in DOMAIN AliasRules :
            \A i, k \in DOMAIN country_col :
                (country_col[i] = AliasRules[r][1] /\ country_col[k] = AliasRules[r][2])
                => c_col[i] = c_col[k]

\* Every row of the aggregated investment table has a row of table df with
\* the same key and a value in column col.
EveryInvestmentRowMatched(df, col) ==
    \A i \in DOMAIN loaded.rnd :
        \E k \in DOMAIN df : df[k].c = loaded.rnd[i].c /\ df[k][col] # NaN

\* The per-indicator tables of a page with the loaded table and the column
\* each one joins.
PairTables(p) ==
    { <<p.gdp_df, loaded.gdp, "GDP_mean">>,
      <<p.int_df, loaded.eco, "Interest_Rate">>,
      <<p.inf_df, loaded.eco, "Inflation_Rate">>,
      <<p.stk_df, loaded.eco, "Stock_Index_Value">> }

\* C8: each per-indicator table has at most as many rows as the overview
\* table, and as many only when every row of the aggregated investment table
\* has a matching, non-missing value of that indicator.
C8_InnerJoinAtMostLeftJoin ==
    page.ran =>
        \A t \in PairTables(page) :
            /\ Len(t[1]) <= Len(page.merged)
            /\ Len(t[1]) = Len(page.merged) => EveryInvestmentRowMatched(t[2], t[3])

\* C8 witness: the GDP table has all the rows of a non-empty overview table
\* while the interest-rate table has fewer.
C8_Witness ==
    /\ page.ran
    /\ page.countries = {}
    /\ Len(page.merged) > 0
    /\ Len(page.gdp_df) = Len(page.merged)
    /\ Len(page.int_df) < Len(page.merged)

\* C9: the GDP mean of a row is the arithmetic mean of its non-missing year
\* cells only; the row [100, -, 120, 110, -, 130] has the mean 115.
C9_GdpMeanIgnoresMissing ==
    phase = "averaged" =>
        /\ LET cells == [i \in DOMAIN years |-> [v |-> years[i]]]
           IN  IsMeanOf(GDP_mean, cells, "v", DOMAIN years)
        /\ years = ExampleYears => GDP_mean = <<115, 1>>

\* C9 witness: the example row has been averaged to 115.
C9_Witness ==
    /\ phase = "averaged"
    /\ years = ExampleYears
    /\ GDP_mean = <<115, 1>>

\* out is the table df with exactly the rows whose key is in sel, in order.
RECURSIVE IsKept(_, _, _)
IsKept(out, df, sel) ==
    IF df = <<>> THEN out = <<>>
    ELSE IF Head(df).c \in sel
         THEN out # <<>> /\ Head(out) = Head(df) /\ IsKept(Tail(out), Tail(df), sel)
         ELSE IsKept(out, Tail(df), sel)

\* C10: with an empty selection each per-indicator table is the table
\* merge_pair produced; with a non-empty one it holds exactly the joined rows
\* whose key is selected, unaltered.
C10_SelectionOnlyFilters ==
    page.ran =>
        LET j == joined(loaded)
        IN  \A t \in { <<page.gdp_df, j.gdp_df>>, <<page.int_df, j.int_df>>,
                       <<page.inf_df, j.inf_df>>, <<page.stk_df, j.stk_df>> } :
                IF page.countries = {} THEN t[1] = t[2]
                ELSE IsKept(t[1], t[2], page.countries)

\* C10 witness: a selection kept some rows of the stock-index table and
\* dropped others.
C10_Witness ==
    /\ page.ran
    /\ page.countries # {}
    /\ Len(page.stk_df) > 0
    /\ Len(page.stk_df) < Len(joined(loaded).stk_df)

\* The key of a string that is only stripped, lower-cased and freed of spaces.
RECURSIVE withoutSpaces(_)
withoutSpaces(s) ==
    IF s = <<>> THEN <<>>
    ELSE IF Head(s) = " " THEN withoutSpaces(Tail(s))
    ELSE <<Head(s)>> \o withoutSpaces(Tail(s))

RECURSIVE trimmed(_)
trimmed(s) ==
    IF s # <<>> /\ Head(s) \in Whitespace THEN trimmed(Tail(s))
    ELSE IF s # <<>> /\ s[Len(s)] \in Whitespace
         THEN trimmed(SubSeq(s, 1, Len(s) - 1))
    ELSE s

PassedThrough(s) ==
    withoutSpaces([i \in DOMAIN trimmed(s) |-> lowerChar(trimmed(s)[i])])

\* C11: a raw country string that is none of the known alias names gets the
\* key that is the string stripped, lower-cased and with its spaces removed.
C11_UnmappedPassThrough ==
    phase = "cleaned" =>
        \A i \in DOMAIN country_col :
            (country_col[i] # NaN /\ country_col[i] \notin KnownAliases)
            => c_col[i] = PassedThrough(country_col[i])

Punctuation == {"'", ",", "."}

====
